---- MODULE Spec2Model ----
(***************************************************************************)
(* A model of the optimization engines of MS-OPTIMIZATION-GO:              *)
(*   - MoneyChangeAlgorithm      (internal/algorithms/money_change.go)     *)
(*   - KnapsackAlgorithm         (internal/algorithms, knapsack source)    *)
(*   - TableAssignmentAlgorithm  (internal/algorithms/money_change.go)     *)
(*                                                                         *)
(* Every engine is a set of pure functions over caller-supplied inputs.    *)
(* Each engine has its own specification: Init draws the inputs from       *)
(* bounded sets and one action per entry point applies it and records the  *)
(* returned result.                                                        *)
(*                                                                         *)
(* Number representation.  Go float64 quantities are modelled as exact     *)
(* fixed-point numbers:                                                    *)
(*   - weights and capacities are integers counting thousandths (milli)    *)
(*     of a capacity unit, so int(x * 100) is x \div 10;                   *)
(*   - values and costs are integers; a fractional (partial) value is the  *)
(*     rational <<num, den>>;                                              *)
(*   - fitness scores are integers counting millionths (micro).            *)
(* Binary rounding of float64 is not modelled.                             *)
(***************************************************************************)
EXTENDS Integers, Sequences, FiniteSets, TLC

VARIABLES
    coins,      \* MoneyChangeAlgorithm.coins: the engine's denomination sequence
    amount,     \* argument of the last CalculateChange call
    change,     \* ChangeResult of the last CalculateChange call
    optTab,     \* reference table: optTab[a+1] = fewest coins summing to a
    heap,       \* backing arrays of the int slices: the caller's argument,
                \* the engine's copy, the slice GetAvailableCoins returned
    coinsRef,   \* the backing array MoneyChangeAlgorithm.coins points to
    retRef,     \* the backing array of the slice the caller got back
    calls,      \* per goroutine: its CalculateChange call in progress
    items,      \* the caller's []InventoryItem
    capacity,   \* the caller's capacity (milli-units)
    res01,      \* KnapsackResult of SolveKnapsack01(items, capacity)
    resGreedy,  \* KnapsackResult of SolveKnapsackGreedy(items, capacity)
    minDemandScore, \* the caller's minimum demand score
    resInventory,   \* KnapsackResult of OptimizeInventory(items, capacity, minDemandScore)
    tables,     \* the caller's []TableAssignment
    groups,     \* the caller's []CustomerGroup
    resAssign,  \* AssignmentResult of AssignTablesGreedy(tables, groups)
    resOptimal, \* AssignmentResult of AssignTablesOptimal(tables, groups)
    score       \* result of calculateFitnessScore(tables[1], groups[1])

changeVars == <<coins, amount, change, optTab, heap, coinsRef, retRef, calls>>
knapVars == <<items, capacity, res01, resGreedy, minDemandScore, resInventory>>
assignVars == <<tables, groups, resAssign, resOptimal, score>>
vars == <<changeVars, knapVars, assignVars>>

(***************************************************************************)
(* Generic helpers                                                         *)
(***************************************************************************)
RECURSIVE SumSeq(_)
SumSeq(s) == IF s = <<>> THEN 0 ELSE Head(s) + SumSeq(Tail(s))

RECURSIVE SumOver(_, _)
\* Sum of f[x] for x in the finite set S (S a subset of DOMAIN f).
SumOver(f, S) ==
    IF S = {} THEN 0
    ELSE LET x == CHOOSE y \in S : TRUE
         IN  f[x] + SumOver(f, S \ {x})

SetMin(S) == CHOOSE x \in S : \A y \in S : x <= y
SetMax(S) == CHOOSE x \in S : \A y \in S : x >= y

\* All sequences over S of length 0..n.
SeqsUpTo(S, n) == UNION {[1..k -> S] : k \in 0..n}

\* Go's integer division truncates toward zero (b # 0).
GoDiv(a, b) ==
    LET q == (IF a < 0 THEN -a ELSE a) \div (IF b < 0 THEN -b ELSE b)
    IN  IF (a < 0) = (b < 0) THEN q ELSE -q

(***************************************************************************)
(* Bounds of the change-engine model                                       *)
(***************************************************************************)
MaxCoins == 3           \* longest denomination sequence passed to the constructor
MaxCoinValue == 6       \* largest denomination in an arbitrary set
MaxAmount == 13         \* largest amount asked of an arbitrary set
MaxAmountDefault == 7000 \* largest amount asked of the default set

(***************************************************************************)
(* MoneyChangeAlgorithm                                                    *)
(***************************************************************************)
\* sort.Sort(sort.Reverse(sort.IntSlice(s))): the descending permutation of s
\* (equal ints are indistinguishable, so the permutation is unique as a value).
RECURSIVE SortDescInts(_)
SortDescInts(s) ==
    IF s = <<>> THEN <<>>
    ELSE LET m == SetMax({s[i] : i \in DOMAIN s})
             k == CHOOSE i \in DOMAIN s : s[i] = m
             rest == [j \in 1..(Len(s) - 1) |-> IF j < k THEN s[j] ELSE s[j + 1]]
         IN  <<m>> \o SortDescInts(rest)

\* Mutant: the copy is sorted ascending instead of descending.
NewMoneyChangeAlgorithmAscending(cs) ==
    LET d == SortDescInts(cs) IN [i \in 1..Len(d) |-> d[Len(d) + 1 - i]]

\* A constructor that would drop repeated denominations before sorting.
RECURSIVE DropRepeats(_)
DropRepeats(s) ==
    IF s = <<>> THEN <<>>
    ELSE LET r == DropRepeats(Tail(s))
         IN  IF \E i \in DOMAIN r : r[i] = Head(s) THEN r ELSE <<Head(s)>> \o r

NewMoneyChangeAlgorithmDedup(cs) == SortDescInts(DropRepeats(cs))

\* NewMoneyChangeAlgorithm(coins): copies the argument and sorts the copy.
NewMoneyChangeAlgorithm(cs) == SortDescInts(cs)

\* The default denominations of NewOptimizationService (cents).
DefaultCoins == <<5000, 2000, 1000, 500, 200, 100, 50, 25, 10, 5, 1>>

\* Mutant: the loop guard is remaining > coin instead of remaining >= coin.
GreedyStepStrict(st, coin) ==
    IF st.remaining > coin
    THEN IF coin = 0 THEN [st EXCEPT !.panicked = TRUE]
         ELSE LET quantity == GoDiv(st.remaining, coin)
              IN  [remaining |-> st.remaining - quantity * coin,
                   breakdown |-> [c \in (DOMAIN st.breakdown) \cup {coin} |->
                                     IF c = coin THEN quantity ELSE st.breakdown[c]],
                   panicked |-> FALSE]
    ELSE st

\* One iteration of the greedy loop: st = [remaining, breakdown, panicked].
\* remaining / coin with coin = 0 is a run-time panic (integer divide by
\* zero): the call never returns a ChangeResult.
GreedyStep(st, coin) ==
    IF st.remaining >= coin
    THEN IF coin = 0 THEN [st EXCEPT !.panicked = TRUE]
         ELSE LET quantity == GoDiv(st.remaining, coin)
              IN  [remaining |-> st.remaining - quantity * coin,
                   breakdown |-> [c \in (DOMAIN st.breakdown) \cup {coin} |->
                                     IF c = coin THEN quantity ELSE st.breakdown[c]],
                   panicked |-> FALSE]
    ELSE st

\* for _, coin := range mca.coins { ... } from position i on.
RECURSIVE GreedyLoop(_, _, _)
GreedyLoop(cs, i, st) ==
    IF i > Len(cs) \/ st.panicked THEN st
    ELSE GreedyLoop(cs, i + 1, GreedyStep(st, cs[i]))

EmptyBreakdown == [c \in {} |-> 0]

\* remaining := amount; breakdown := make(map[int]int)
LoopStart(amt) == [remaining |-> amt, breakdown |-> EmptyBreakdown, panicked |-> FALSE]

\* The outcome of a call that panicked: no ChangeResult is returned.
Panicked ==
    [Success |-> FALSE, TotalCoins |-> 0, Breakdown |-> EmptyBreakdown,
     Message |-> <<"panic: runtime error: integer divide by zero">>]

\* totalCoins: the sum of the quantities recorded in the breakdown map.
TotalOfBreakdown(b) == SumOver(b, DOMAIN b)

\* Mutant: the remaining > 0 failure return is missing.
CalculateChangeNoRemainderCheck(cs, amt) ==
    IF amt < 0 THEN
        [Success |-> FALSE, TotalCoins |-> 0, Breakdown |-> EmptyBreakdown,
         Message |-> <<"Amount cannot be negative">>]
    ELSE IF amt = 0 THEN
        [Success |-> TRUE, TotalCoins |-> 0, Breakdown |-> EmptyBreakdown,
         Message |-> <<"No change needed">>]
    ELSE
        LET st == GreedyLoop(cs, 1, LoopStart(amt))
            totalCoins == TotalOfBreakdown(st.breakdown)
        IN  [Success |-> TRUE, TotalCoins |-> totalCoins, Breakdown |-> st.breakdown,
             Message |-> <<"Change calculated with coins", totalCoins>>]

\* The part of CalculateChange after the loop, on the loop's final state.
AfterLoop(st) ==
    LET totalCoins == TotalOfBreakdown(st.breakdown)
    IN  IF st.panicked THEN Panicked
        ELSE IF st.remaining > 0 THEN
            [Success |-> FALSE, TotalCoins |-> 0, Breakdown |-> EmptyBreakdown,
             Message |-> <<"Cannot make exact change. Remaining", st.remaining>>]
        ELSE
            [Success |-> TRUE, TotalCoins |-> totalCoins, Breakdown |-> st.breakdown,
             Message |-> <<"Change calculated with coins", totalCoins>>]

\* A CalculateChange without the early return for amount == 0: the greedy
\* pass would run on a zero amount.
CalculateChangeNoZeroReturn(cs, amt) ==
    IF amt < 0 THEN
        [Success |-> FALSE, TotalCoins |-> 0, Breakdown |-> EmptyBreakdown,
         Message |-> <<"Amount cannot be negative">>]
    ELSE AfterLoop(GreedyLoop(cs, 1, LoopStart(amt)))

\* MoneyChangeAlgorithm.CalculateChange(amount) on denomination sequence cs.
CalculateChange(cs, amt) ==
    IF amt < 0 THEN
        [Success |-> FALSE, TotalCoins |-> 0, Breakdown |-> EmptyBreakdown,
         Message |-> <<"Amount cannot be negative">>]
    ELSE IF amt = 0 THEN
        [Success |-> TRUE, TotalCoins |-> 0, Breakdown |-> EmptyBreakdown,
         Message |-> <<"No change needed">>]
    ELSE AfterLoop(GreedyLoop(cs, 1, LoopStart(amt)))

\* The slices of the change engine.  A slice is named by its backing array:
\* "arg" is the array of the slice the caller passed to the constructor,
\* "engine" the array made by the constructor, "returned" the array of the
\* slice the caller last got from GetAvailableCoins.
NoHeap == [arg |-> <<>>, engine |-> <<>>, returned |-> <<>>]

\* A constructor that would keep and sort the caller's slice itself.
NewEngineNoCopy(cs) ==
    [heap |-> [arg |-> NewMoneyChangeAlgorithm(cs), engine |-> <<>>, returned |-> <<>>],
     coinsRef |-> "arg"]

\* NewMoneyChangeAlgorithm on the caller's slice cs: make, copy, sort the
\* copy; the caller's array is left as it was.
NewEngine(cs) ==
    [heap |-> [arg |-> cs, engine |-> NewMoneyChangeAlgorithm(cs), returned |-> <<>>],
     coinsRef |-> "engine"]

\* GetAvailableCoins: append([]int(nil), mca.coins...), a fresh array.
GetAvailableCoins(h, ref) ==
    [heap |-> [h EXCEPT !.returned = h[ref]], retRef |-> "returned"]

\* No goroutine has a call in progress.
Procs == {"g1", "g2"}
NoCall == [pc |-> "idle"]
NoCalls == [p \in Procs |-> NoCall]

\* No CalculateChange call has returned yet.
NoChange == [Success |-> FALSE, TotalCoins |-> 0, Breakdown |-> EmptyBreakdown,
             Message |-> <<"no call">>]

Called(res) == res.Message # <<"no call">>

(***************************************************************************)
(* Rationals <<num, den>> with den > 0 (fractional values and costs)       *)
(***************************************************************************)
Rat(n) == <<n, 1>>
RatAdd(a, b) == <<a[1] * b[2] + b[1] * a[2], a[2] * b[2]>>
RatLess(a, b) == a[1] * b[2] < b[1] * a[2]
RatLeq(a, b) == a[1] * b[2] <= b[1] * a[2]
RatEq(a, b) == a[1] * b[2] = b[1] * a[2]

(***************************************************************************)
(* Bounds and input domains of the knapsack model                          *)
(***************************************************************************)
MaxItems == 3                       \* longest item list
WeightValues == {0, 5, 10, 15}      \* item weights (milli): 0, 0.005, 0.01, 0.015
ValueValues == {1, 2}               \* item values
CostValues == {3}                   \* item costs
DemandValues == {50}                \* item demand scores (hundredths)
CapacityValues == {0, 5, 10, 15, 25} \* capacities (milli)

(***************************************************************************)
(* KnapsackAlgorithm                                                       *)
(***************************************************************************)
\* The factor of int(x * 100).
ScaleFactor == 100

\* int(x * 100) for x >= 0 given in milli-units: truncation toward zero.
ScaleToInt(x) == (x * ScaleFactor) \div 1000

\* A KnapsackResult; values and costs are rationals.
KnapsackResult(sel, tv, tw, tc, avail, msg) ==
    [SelectedItems |-> sel, TotalValue |-> tv, TotalWeight |-> tw,
     TotalCost |-> tc, CapacityUsed |-> tw, CapacityAvailable |-> avail,
     Efficiency |-> IF tw > 0 THEN <<tv[1] * 1000, tv[2] * tw>> ELSE Rat(0),
     Message |-> msg]

\* The early returns: no items, or capacity <= 0.
EmptyResult(cap, msg) ==
    [SelectedItems |-> <<>>, TotalValue |-> Rat(0), TotalWeight |-> 0,
     TotalCost |-> Rat(0), CapacityUsed |-> 0, CapacityAvailable |-> cap,
     Efficiency |-> Rat(0), Message |-> <<msg>>]

\* An item as it appears in a result: value and cost as rationals.
AsSelected(it) ==
    [ID |-> it.ID, Weight |-> it.Weight, Value |-> Rat(it.Value),
     Cost |-> Rat(it.Cost), DemandScore |-> it.DemandScore]

\* Mutant: the inner loop stops at w > weightInt, so an item that fills the
\* table index exactly is never tried.
RECURSIVE InnerLoopOffByOne(_, _, _, _, _)
InnerLoopOffByOne(st, i, w, weightInt, value) ==
    IF w <= weightInt THEN st
    ELSE LET better == st.dp[w - weightInt] + value > st.dp[w]
             next == IF better
                     THEN [dp |-> [st.dp EXCEPT ![w] = st.dp[w - weightInt] + value],
                           selected |-> st.selected \cup {<<i, w>>}]
                     ELSE st
         IN  InnerLoopOffByOne(next, i, w - 1, weightInt, value)

\* An inner loop that would also take an item that only ties the table
\* entry (>= in place of >).
RECURSIVE InnerLoopNonStrict(_, _, _, _, _)
InnerLoopNonStrict(st, i, w, weightInt, value) ==
    IF w < weightInt THEN st
    ELSE LET better == st.dp[w - weightInt] + value >= st.dp[w]
             next == IF better
                     THEN [dp |-> [st.dp EXCEPT ![w] = st.dp[w - weightInt] + value],
                           selected |-> st.selected \cup {<<i, w>>}]
                     ELSE st
         IN  InnerLoopNonStrict(next, i, w - 1, weightInt, value)

\* An inner loop that would run upwards, for w := weightInt; w <= capacityInt;
\* w++, so that an entry already updated for item i is read again.
RECURSIVE AscendingPass(_, _, _, _, _, _)
AscendingPass(st, i, w, capacityInt, weightInt, value) ==
    IF w > capacityInt THEN st
    ELSE LET better == st.dp[w - weightInt] + value > st.dp[w]
             next == IF better
                     THEN [dp |-> [st.dp EXCEPT ![w] = st.dp[w - weightInt] + value],
                           selected |-> st.selected \cup {<<i, w>>}]
                     ELSE st
         IN  AscendingPass(next, i, w + 1, capacityInt, weightInt, value)

InnerLoopAscending(st, i, w, weightInt, value) ==
    AscendingPass(st, i, weightInt, w, weightInt, value)

\* for w := capacityInt; w >= weightInt; w-- { ... } for item i, from w down.
\* st = [dp, selected]; selected is the set of <<i, w>> marked true.
RECURSIVE InnerLoop(_, _, _, _, _)
InnerLoop(st, i, w, weightInt, value) ==
    IF w < weightInt THEN st
    ELSE LET better == st.dp[w - weightInt] + value > st.dp[w]
             next == IF better
                     THEN [dp |-> [st.dp EXCEPT ![w] = st.dp[w - weightInt] + value],
                           selected |-> st.selected \cup {<<i, w>>}]
                     ELSE st
         IN  InnerLoop(next, i, w - 1, weightInt, value)

\* for i := 0; i < n; i++ { ... }: the DP table after items i..n.
RECURSIVE BuildDP(_, _, _, _)
BuildDP(its, capacityInt, i, st) ==
    IF i > Len(its) THEN st
    ELSE BuildDP(its, capacityInt, i + 1,
                 InnerLoop(st, i, capacityInt, ScaleToInt(its[i].Weight), its[i].Value))

\* The reconstruction walk for i := n-1 .. 0; acc = [w, picked], picked in
\* the order of the appends (descending index).
RECURSIVE Reconstruct(_, _, _, _)
Reconstruct(its, selected, i, acc) ==
    IF i < 1 THEN acc
    ELSE LET weightInt == ScaleToInt(its[i].Weight)
             take == acc.w >= weightInt /\ <<i, acc.w>> \in selected
         IN  Reconstruct(its, selected, i - 1,
                         IF take
                         THEN [w |-> acc.w - weightInt, picked |-> Append(acc.picked, i)]
                         ELSE acc)

\* A solver without the reversal: selectedItems stays in walk order.
NoReversal(s) == s

\* The in-place reversal of selectedItems.
Reverse(s) == [k \in 1..Len(s) |-> s[Len(s) + 1 - k]]

\* KnapsackAlgorithm.SolveKnapsack01(items, capacity).
SolveKnapsack01(its, cap) ==
    IF Len(its) = 0 THEN EmptyResult(cap, "No items provided")
    ELSE IF cap <= 0 THEN EmptyResult(cap, "Invalid capacity (must be > 0)")
    ELSE
        LET capacityInt == ScaleToInt(cap)
            st == BuildDP(its, capacityInt, 1,
                          [dp |-> [w \in 0..capacityInt |-> 0], selected |-> {}])
            rec == Reconstruct(its, st.selected, Len(its), [w |-> capacityInt, picked |-> <<>>])
            picked == rec.picked
            totalWeight == SumSeq([k \in 1..Len(picked) |-> its[picked[k]].Weight])
            totalValue == SumSeq([k \in 1..Len(picked) |-> its[picked[k]].Value])
            totalCost == SumSeq([k \in 1..Len(picked) |-> its[picked[k]].Cost])
            selectedItems == Reverse([k \in 1..Len(picked) |-> AsSelected(its[picked[k]])])
        IN  KnapsackResult(selectedItems, Rat(totalValue), totalWeight, Rat(totalCost),
                           cap - totalWeight,
                           <<"Selected", Len(picked), totalValue, totalWeight, cap>>)

\* The value/weight ratio of an item; 0 when the weight is not positive.
Ratio(it) == IF it.Weight > 0 THEN <<it.Value, it.Weight>> ELSE Rat(0)

\* The orders sort.Slice may leave: every permutation of the indices with
\* non-increasing ratio (sort.Slice is not stable, so ties may land in any
\* order).
SortedByRatio(its) ==
    {p \in [1..Len(its) -> 1..Len(its)] :
        /\ \A a, b \in 1..Len(its) : a # b => p[a] # p[b]
        /\ \A a \in 1..(Len(its) - 1) : ~RatLess(Ratio(its[p[a]]), Ratio(its[p[a + 1]]))}

\* A selection loop whose fractional branch would neither zero the remaining
\* capacity nor break: the next items are cut to the same remainder.
RECURSIVE GreedyFillNoBreak(_, _, _, _)
GreedyFillNoBreak(its, order, k, g) ==
    IF k > Len(order) \/ g.remaining <= 0 THEN g
    ELSE LET item == its[order[k]]
         IN  IF item.Weight <= g.remaining THEN
                 GreedyFillNoBreak(its, order, k + 1,
                     [selected |-> Append(g.selected, AsSelected(item)),
                      remaining |-> g.remaining - item.Weight,
                      totalValue |-> RatAdd(g.totalValue, Rat(item.Value)),
                      totalWeight |-> g.totalWeight + item.Weight,
                      totalCost |-> RatAdd(g.totalCost, Rat(item.Cost)),
                      partial |-> g.partial])
             ELSE
                 LET partialItem ==
                         [ID |-> item.ID, Weight |-> g.remaining,
                          Value |-> <<item.Value * g.remaining, item.Weight>>,
                          Cost |-> <<item.Cost * g.remaining, item.Weight>>,
                          DemandScore |-> item.DemandScore]
                 IN  GreedyFillNoBreak(its, order, k + 1,
                         [selected |-> Append(g.selected, partialItem),
                          remaining |-> g.remaining,
                          totalValue |-> RatAdd(g.totalValue, partialItem.Value),
                          totalWeight |-> g.totalWeight + g.remaining,
                          totalCost |-> RatAdd(g.totalCost, partialItem.Cost),
                          partial |-> TRUE])

\* The greedy selection loop over the sorted order, from position k on.
\* g = [selected, remaining, totalValue, totalWeight, totalCost, partial].
RECURSIVE GreedyFill(_, _, _, _)
GreedyFill(its, order, k, g) ==
    IF k > Len(order) \/ g.remaining <= 0 THEN g
    ELSE LET item == its[order[k]]
         IN  IF item.Weight <= g.remaining THEN
                 GreedyFill(its, order, k + 1,
                     [selected |-> Append(g.selected, AsSelected(item)),
                      remaining |-> g.remaining - item.Weight,
                      totalValue |-> RatAdd(g.totalValue, Rat(item.Value)),
                      totalWeight |-> g.totalWeight + item.Weight,
                      totalCost |-> RatAdd(g.totalCost, Rat(item.Cost)),
                      partial |-> FALSE])
             ELSE
                 \* fraction := remainingCapacity / item.Weight
                 LET partialItem ==
                         [ID |-> item.ID, Weight |-> g.remaining,
                          Value |-> <<item.Value * g.remaining, item.Weight>>,
                          Cost |-> <<item.Cost * g.remaining, item.Weight>>,
                          DemandScore |-> item.DemandScore]
                 IN  [selected |-> Append(g.selected, partialItem),
                      remaining |-> 0,
                      totalValue |-> RatAdd(g.totalValue, partialItem.Value),
                      totalWeight |-> g.totalWeight + g.remaining,
                      totalCost |-> RatAdd(g.totalCost, partialItem.Cost),
                      partial |-> TRUE]

\* KnapsackAlgorithm.SolveKnapsackGreedy(items, capacity) when sort.Slice
\* leaves the order `order`.  The field Partial records whether the
\* fractional branch ran.
SolveKnapsackGreedy(its, cap, order) ==
    IF Len(its) = 0 THEN EmptyResult(cap, "No items provided") @@ [Partial |-> FALSE]
    ELSE IF cap <= 0 THEN
        EmptyResult(cap, "Invalid capacity (must be > 0)") @@ [Partial |-> FALSE]
    ELSE
        LET g == GreedyFill(its, order, 1,
                     [selected |-> <<>>, remaining |-> cap, totalValue |-> Rat(0),
                      totalWeight |-> 0, totalCost |-> Rat(0), partial |-> FALSE])
        IN  KnapsackResult(g.selected, g.totalValue, g.totalWeight, g.totalCost,
                           g.remaining,
                           <<"Selected (greedy)", Len(g.selected), g.totalValue,
                             g.totalWeight, cap>>)
            @@ [Partial |-> g.partial]

\* A filter that would keep every item.
FilterByDemandKeepAll(its, minScore) == its

\* filteredItems: the items with DemandScore >= minDemandScore, in input
\* order, appended to a new slice.
RECURSIVE FilterByDemand(_, _)
FilterByDemand(its, minScore) ==
    IF its = <<>> THEN <<>>
    ELSE (IF Head(its).DemandScore >= minScore THEN <<Head(its)>> ELSE <<>>)
         \o FilterByDemand(Tail(its), minScore)

\* KnapsackAlgorithm.OptimizeInventory(items, maxCapacity, minDemandScore)
\* when sort.Slice leaves the filtered items in the order `order`.
OptimizeInventory(its, maxCapacity, minScore, order) ==
    LET filteredItems == FilterByDemand(its, minScore)
    IN  IF Len(filteredItems) = 0 THEN
            [SelectedItems |-> <<>>, TotalValue |-> Rat(0), TotalWeight |-> 0,
             TotalCost |-> Rat(0), CapacityUsed |-> 0,
             CapacityAvailable |-> maxCapacity, Efficiency |-> Rat(0),
             Message |-> <<"No items meet the minimum demand score of", minScore>>,
             Partial |-> FALSE]
        ELSE SolveKnapsackGreedy(filteredItems, maxCapacity, order)

\* The caller's item slice after a call.  SolveKnapsack01 reads items and
\* appends copies of its elements to selectedItems, the slice it reverses.
CallerItemsAfter01(its, cap) == its

\* SolveKnapsackGreedy copies every item into itemsWithRatio, sorts that
\* slice, and scales partialItem, a copy of the struct.
CallerItemsAfterGreedy(its, cap, order) == its

\* OptimizeInventory appends the items it keeps to filteredItems, a new
\* slice, and passes that one to SolveKnapsackGreedy.
CallerItemsAfterOptimizeInventory(its, cap, minScore, order) == its

\* No call has returned yet.
NoResult == [Message |-> <<"no call">>]

(***************************************************************************)
(* TableAssignmentAlgorithm                                                *)
(*                                                                         *)
(* Coordinates and distances are integers; the input domains place every   *)
(* location on the ray k * (3, 4), so that every Euclidean distance is the *)
(* integer 5 * |k1 - k2|.  An optional coordinate, a *float64, is a sequence *)
(* of length 0 (nil) or 1.  Scores count millionths.                       *)
(***************************************************************************)
Abs(x) == IF x < 0 THEN -x ELSE x

\* math.Sqrt on a perfect square.
Sqrt(n, bound) == CHOOSE r \in 0..bound : r * r = n

\* calculateDistance(x1, y1, x2, y2).
calculateDistance(x1, y1, x2, y2) ==
    LET dx == x2 - x1
        dy == y2 - y1
    IN  Sqrt(dx * dx + dy * dy, Abs(dx) + Abs(dy))

\* The score 1.0.
One == 1000000

HasPreferred(group) == group.PreferredX # <<>> /\ group.PreferredY # <<>>

\* The score after the capacity-utilization penalty (Capacity >= Size).
CapacityScore(table, group) ==
    IF 2 * group.Size < table.Capacity THEN (One * 7) \div 10
    ELSE IF 4 * group.Size < 3 * table.Capacity THEN (One * 9) \div 10
    ELSE One

\* A penalty without the 100-unit ceiling on the distance.
DistanceScoreNoCeiling(sc, distance) == (sc * (1000 - 3 * distance)) \div 1000

\* score *= 1.0 - distancePenalty * 0.3, with the distance capped at 100.
DistanceScore(sc, distance) ==
    LET d == IF distance > 100 THEN 100 ELSE distance
    IN  (sc * (1000 - 3 * d)) \div 1000

\* float64(priority) / maxPriority * 0.1.
PriorityBonus(priority) == (priority * One) \div 100

\* Mutant: the final clamp to [0, 1] is missing.
calculateFitnessScoreNoClamp(table, group) ==
    IF table.Capacity < group.Size THEN 0
    ELSE
        LET distance == calculateDistance(table.LocationX, table.LocationY,
                                          group.PreferredX[1], group.PreferredY[1])
        IN  IF HasPreferred(group) /\ group.MaxDistance > 0 /\ distance > group.MaxDistance
            THEN 0
            ELSE (IF HasPreferred(group)
                  THEN DistanceScore(CapacityScore(table, group), distance)
                  ELSE CapacityScore(table, group))
                 + PriorityBonus(table.Priority) + PriorityBonus(group.Priority)

\* Mutant: the hard reject of a table smaller than the group is missing.
calculateFitnessScoreNoCapacityCheck(table, group) ==
    LET distance == calculateDistance(table.LocationX, table.LocationY,
                                      group.PreferredX[1], group.PreferredY[1])
    IN  IF HasPreferred(group) /\ group.MaxDistance > 0 /\ distance > group.MaxDistance
        THEN 0
        ELSE LET raw == (IF HasPreferred(group)
                         THEN DistanceScore(CapacityScore(table, group), distance)
                         ELSE CapacityScore(table, group))
                        + PriorityBonus(table.Priority) + PriorityBonus(group.Priority)
             IN  IF raw > One THEN One ELSE IF raw < 0 THEN 0 ELSE raw

\* Mutant: the hard reject of a table beyond MaxDistance is missing.
calculateFitnessScoreNoMaxDistance(table, group) ==
    IF table.Capacity < group.Size THEN 0
    ELSE
        LET distance == calculateDistance(table.LocationX, table.LocationY,
                                          group.PreferredX[1], group.PreferredY[1])
            raw == (IF HasPreferred(group)
                    THEN DistanceScore(CapacityScore(table, group), distance)
                    ELSE CapacityScore(table, group))
                   + PriorityBonus(table.Priority) + PriorityBonus(group.Priority)
        IN  IF raw > One THEN One ELSE IF raw < 0 THEN 0 ELSE raw

\* calculateFitnessScore(table, group).
calculateFitnessScore(table, group) ==
    IF table.Capacity < group.Size THEN 0
    ELSE
        LET distance == calculateDistance(table.LocationX, table.LocationY,
                                          group.PreferredX[1], group.PreferredY[1])
        IN  IF HasPreferred(group) /\ group.MaxDistance > 0 /\ distance > group.MaxDistance
            THEN 0
            ELSE LET raw == (IF HasPreferred(group)
                             THEN DistanceScore(CapacityScore(table, group), distance)
                             ELSE CapacityScore(table, group))
                            + PriorityBonus(table.Priority) + PriorityBonus(group.Priority)
                 IN  IF raw > One THEN One ELSE IF raw < 0 THEN 0 ELSE raw

\* getGroupIDs(groups).
getGroupIDs(gs) == [i \in 1..Len(gs) |-> gs[i].ID]

\* A filter that would keep occupied tables: only IsAvailable is tested.
RECURSIVE FilterAvailableIgnoringOccupied(_)
FilterAvailableIgnoringOccupied(ts) ==
    IF ts = <<>> THEN <<>>
    ELSE (IF Head(ts).IsAvailable THEN <<Head(ts)>> ELSE <<>>)
         \o FilterAvailableIgnoringOccupied(Tail(ts))

\* The available tables, in input order.
RECURSIVE FilterAvailable(_)
FilterAvailable(ts) ==
    IF ts = <<>> THEN <<>>
    ELSE (IF Head(ts).IsAvailable /\ ~Head(ts).IsOccupied THEN <<Head(ts)>> ELSE <<>>)
         \o FilterAvailable(Tail(ts))

\* A less function that would put low priorities and small groups first.
GroupBeforeAscending(g, h) ==
    IF g.Priority # h.Priority THEN g.Priority < h.Priority ELSE g.Size < h.Size

\* The less function of the sort of the groups.
GroupBefore(g, h) ==
    IF g.Priority # h.Priority THEN g.Priority > h.Priority ELSE g.Size > h.Size

\* The orders sort.Slice may leave the copied groups in (ties in any order).
SortedGroupOrders(gs) ==
    {p \in [1..Len(gs) -> 1..Len(gs)] :
        /\ \A a, b \in 1..Len(gs) : a # b => p[a] # p[b]
        /\ \A a \in 1..(Len(gs) - 1) : ~GroupBefore(gs[p[a + 1]], gs[p[a]])}

\* Mutant: the scan does not skip tables that are already assigned.
RECURSIVE FindBestTableIgnoringAssigned(_, _, _, _, _)
FindBestTableIgnoringAssigned(avail, assignedTableIDs, group, k, best) ==
    IF k > Len(avail) THEN best
    ELSE LET sc == calculateFitnessScore(avail[k], group)
         IN  FindBestTableIgnoringAssigned(avail, assignedTableIDs, group, k + 1,
                 IF sc > best.bestScore /\ sc > 0
                 THEN [bestScore |-> sc, bestTable |-> k]
                 ELSE best)

\* A scan that would let a later table win a tie (>= in place of >).
RECURSIVE FindBestTableLastWins(_, _, _, _, _)
FindBestTableLastWins(avail, assignedTableIDs, group, k, best) ==
    IF k > Len(avail) THEN best
    ELSE IF avail[k].ID \in assignedTableIDs
         THEN FindBestTableLastWins(avail, assignedTableIDs, group, k + 1, best)
    ELSE LET sc == calculateFitnessScore(avail[k], group)
         IN  FindBestTableLastWins(avail, assignedTableIDs, group, k + 1,
                 IF sc >= best.bestScore /\ sc > 0
                 THEN [bestScore |-> sc, bestTable |-> k]
                 ELSE best)

\* The scan for the best table of one group, from position k of the
\* available tables: best = [bestScore, bestTable (position, 0 for none)].
RECURSIVE FindBestTable(_, _, _, _, _)
FindBestTable(avail, assignedTableIDs, group, k, best) ==
    IF k > Len(avail) THEN best
    ELSE IF avail[k].ID \in assignedTableIDs
         THEN FindBestTable(avail, assignedTableIDs, group, k + 1, best)
    ELSE LET sc == calculateFitnessScore(avail[k], group)
         IN  FindBestTable(avail, assignedTableIDs, group, k + 1,
                 IF sc > best.bestScore /\ sc > 0
                 THEN [bestScore |-> sc, bestTable |-> k]
                 ELSE best)

\* A loop that would stop at the first group without a table (break in
\* place of falling through to the next group).
RECURSIVE AssignLoopStopsAtUnassigned(_, _, _, _, _)
AssignLoopStopsAtUnassigned(avail, gs, order, k, acc) ==
    IF k > Len(order) THEN acc
    ELSE
        LET group == gs[order[k]]
            best == FindBestTable(avail, acc.assignedTableIDs, group, 1,
                                  [bestScore |-> -One, bestTable |-> 0])
        IN  IF best.bestScore > 0 THEN
                LET bestTable == avail[best.bestTable]
                    assignment ==
                        [TableID |-> bestTable.ID, TableCode |-> bestTable.Code,
                         CustomerID |-> group.ID, Distance |-> 0,
                         FitnessScore |-> best.bestScore,
                         CapacityUtil |-> <<group.Size, bestTable.Capacity>>]
                IN  AssignLoopStopsAtUnassigned(avail, gs, order, k + 1,
                        [assignments |-> Append(acc.assignments, assignment),
                         assignedTableIDs |-> acc.assignedTableIDs \cup {bestTable.ID},
                         unassignedGroups |-> acc.unassignedGroups])
            ELSE [assignments |-> acc.assignments,
                  assignedTableIDs |-> acc.assignedTableIDs,
                  unassignedGroups |-> Append(acc.unassignedGroups, group.ID)]

\* The body of the loop over the sorted groups, from position k of `order`.
\* acc = [assignments, assignedTableIDs, unassignedGroups].
RECURSIVE AssignLoop(_, _, _, _, _)
AssignLoop(avail, gs, order, k, acc) ==
    IF k > Len(order) THEN acc
    ELSE
        LET group == gs[order[k]]
            best == FindBestTable(avail, acc.assignedTableIDs, group, 1,
                                  [bestScore |-> -One, bestTable |-> 0])
        IN  AssignLoop(avail, gs, order, k + 1,
                IF best.bestScore > 0 THEN
                    LET bestTable == avail[best.bestTable]
                        distance ==
                            IF HasPreferred(group)
                            THEN calculateDistance(bestTable.LocationX, bestTable.LocationY,
                                                   group.PreferredX[1], group.PreferredY[1])
                            ELSE 0
                        assignment ==
                            [TableID |-> bestTable.ID, TableCode |-> bestTable.Code,
                             CustomerID |-> group.ID, Distance |-> distance,
                             FitnessScore |-> best.bestScore,
                             CapacityUtil |-> <<group.Size, bestTable.Capacity>>]
                    IN  [assignments |-> Append(acc.assignments, assignment),
                         assignedTableIDs |-> acc.assignedTableIDs \cup {bestTable.ID},
                         unassignedGroups |-> acc.unassignedGroups]
                ELSE
                    [assignments |-> acc.assignments,
                     assignedTableIDs |-> acc.assignedTableIDs,
                     unassignedGroups |-> Append(acc.unassignedGroups, group.ID)])

\* The size of the first input group whose ID is id (0 when there is none).
FirstGroupSize(gs, id) ==
    IF \E i \in 1..Len(gs) : gs[i].ID = id
    THEN gs[SetMin({i \in 1..Len(gs) : gs[i].ID = id})].Size
    ELSE 0

\* The early returns of AssignTablesGreedy.
EmptyAssignment(unassigned, msg) ==
    [Assignments |-> <<>>, UnassignedGroups |-> unassigned, TotalFitness |-> 0,
     AverageFitness |-> Rat(0), TablesUsed |-> 0, CustomersServed |-> 0,
     Message |-> <<msg>>]

\* The caller's slices after AssignTablesGreedy.  The tables that pass the
\* filter are appended to availableTables; the groups are copied into
\* sortedGroups and that copy is sorted.
CallerTablesAfterAssign(ts, gs, order) == ts

\* A pass that would sort the caller's groups themselves.
CallerGroupsSortedInPlace(ts, gs, order) ==
    IF Len(ts) = 0 \/ Len(gs) = 0 \/ Len(FilterAvailable(ts)) = 0 THEN gs
    ELSE [k \in 1..Len(gs) |-> gs[order[k]]]

CallerGroupsAfterAssign(ts, gs, order) == gs

\* TableAssignmentAlgorithm.AssignTablesGreedy(tables, groups) when
\* sort.Slice leaves the groups in the order `order`.
AssignTablesGreedy(ts, gs, order) ==
    IF Len(ts) = 0 THEN EmptyAssignment(getGroupIDs(gs), "No tables available")
    ELSE IF Len(gs) = 0 THEN EmptyAssignment(<<>>, "No customer groups to assign")
    ELSE IF Len(FilterAvailable(ts)) = 0
         THEN EmptyAssignment(getGroupIDs(gs), "No available tables")
    ELSE
        LET acc == AssignLoop(FilterAvailable(ts), gs, order, 1,
                       [assignments |-> <<>>, assignedTableIDs |-> {},
                        unassignedGroups |-> <<>>])
            as == acc.assignments
            totalFitness == SumSeq([k \in 1..Len(as) |-> as[k].FitnessScore])
            customersServed ==
                SumSeq([k \in 1..Len(as) |-> FirstGroupSize(gs, as[k].CustomerID)])
        IN  [Assignments |-> as,
             UnassignedGroups |-> acc.unassignedGroups,
             TotalFitness |-> totalFitness,
             AverageFitness |-> IF Len(as) > 0 THEN <<totalFitness, Len(as)>> ELSE Rat(0),
             TablesUsed |-> Len(as),
             CustomersServed |-> customersServed,
             Message |-> <<"Assigned", Len(as), Len(gs)>>]

\* A variant of the optimal mode that would take the groups in the caller's
\* order instead of delegating to the greedy pass.
AssignTablesInCallerOrder(ts, gs, order) ==
    AssignTablesGreedy(ts, gs, [k \in 1..Len(gs) |-> k])

\* TableAssignmentAlgorithm.AssignTablesOptimal(tables, groups): delegates.
AssignTablesOptimal(ts, gs, order) == AssignTablesGreedy(ts, gs, order)

(***************************************************************************)
(* Bounds and input domains of the assignment model                        *)
(***************************************************************************)
MaxTables == 2      \* longest table list
MaxGroups == 2      \* longest group list

\* Tables: ids may repeat; all at the origin, available and free.
TableDomain ==
    [ID : {"T1", "T2"}, Code : {"MESA"}, Capacity : {2, 4},
     LocationX : {0}, LocationY : {0},
     IsAvailable : {TRUE}, IsOccupied : {FALSE}, Priority : {0, 10}]

\* Groups without a preferred location.
GroupDomain ==
    [Size : {2, 3}, Priority : {0, 5},
     PreferredX : {<<>>}, PreferredY : {<<>>}, MaxDistance : {0}]

\* Group lists: the ID of a group is its position in the caller's list.
GroupLists(GD, n) ==
    {[i \in 1..Len(s) |-> s[i] @@ [ID |-> i]] : s \in SeqsUpTo(GD, n)}

(***************************************************************************)
(* The engines are independent: in the specification of one engine the     *)
(* variables of the others keep these values.                              *)
(***************************************************************************)
ChangeIdle ==
    /\ coins = <<>>
    /\ amount = 0
    /\ change = NoChange
    /\ optTab = <<>>
    /\ heap = NoHeap
    /\ coinsRef = "engine"
    /\ retRef = "none"
    /\ calls = NoCalls

KnapIdle ==
    /\ items = <<>>
    /\ capacity = 0
    /\ res01 = NoResult
    /\ resGreedy = NoResult
    /\ minDemandScore = 0
    /\ resInventory = NoResult

AssignIdle ==
    /\ tables = <<>>
    /\ groups = <<>>
    /\ resAssign = NoResult
    /\ resOptimal = NoResult
    /\ score = -1

(***************************************************************************)
(* Specification of the knapsack engine                                    *)
(***************************************************************************)
ItemDomain ==
    [Weight : WeightValues, Value : ValueValues, Cost : CostValues,
     DemandScore : DemandValues]

\* Item lists: the ID of an item is its position in the caller's list.
ItemLists ==
    {[i \in 1..Len(s) |-> s[i] @@ [ID |-> i]] : s \in SeqsUpTo(ItemDomain, MaxItems)}

InitKnap ==
    /\ items \in ItemLists
    /\ capacity \in CapacityValues
    /\ res01 = NoResult
    /\ resGreedy = NoResult
    /\ minDemandScore = 0
    /\ resInventory = NoResult
    /\ ChangeIdle
    /\ AssignIdle

DoSolveKnapsack01 ==
    /\ res01' = SolveKnapsack01(items, capacity)
    /\ items' = CallerItemsAfter01(items, capacity)
    /\ UNCHANGED <<capacity, resGreedy, minDemandScore, resInventory,
                   changeVars, assignVars>>

DoSolveKnapsackGreedy ==
    \E order \in SortedByRatio(items) :
        /\ resGreedy' = SolveKnapsackGreedy(items, capacity, order)
        /\ items' = CallerItemsAfterGreedy(items, capacity, order)
        /\ UNCHANGED <<capacity, res01, minDemandScore, resInventory,
                       changeVars, assignVars>>

NextKnap == DoSolveKnapsack01 \/ DoSolveKnapsackGreedy

SpecKnap == InitKnap /\ [][NextKnap]_vars

\* Item lists over the item domain D, of length up to MaxItems.
ItemListsOver(D) ==
    {[i \in 1..Len(s) |-> s[i] @@ [ID |-> i]] : s \in SeqsUpTo(D, MaxItems)}

\* The exact solver alone, over items whose value may be zero or negative.
ValueItemDomain ==
    [Weight : {0, 5, 10, 15}, Value : {-1, 0, 2}, Cost : CostValues,
     DemandScore : DemandValues]

InitKnap01 ==
    /\ items \in ItemListsOver(ValueItemDomain)
    /\ capacity \in {0, 10, 25}
    /\ res01 = NoResult
    /\ resGreedy = NoResult
    /\ minDemandScore = 0
    /\ resInventory = NoResult
    /\ ChangeIdle
    /\ AssignIdle

SpecKnap01 == InitKnap01 /\ [][DoSolveKnapsack01]_vars

\* The exact solver alone, over weights that scale to 0..3 table units and
\* capacities that scale to 0, 3 and 5.
ExactItemDomain ==
    [Weight : {0, 10, 20, 30}, Value : {0, 1, 2}, Cost : CostValues,
     DemandScore : DemandValues]

InitExact ==
    /\ items \in ItemListsOver(ExactItemDomain)
    /\ capacity \in {5, 30, 50}
    /\ res01 = NoResult
    /\ resGreedy = NoResult
    /\ minDemandScore = 0
    /\ resInventory = NoResult
    /\ ChangeIdle
    /\ AssignIdle

SpecExact == InitExact /\ [][DoSolveKnapsack01]_vars

\* OptimizeInventory: items of several demand scores, a threshold below,
\* among and above them.
DemandItemDomain ==
    [Weight : {10, 15}, Value : {2}, Cost : CostValues, DemandScore : {20, 50, 80}]

InitInventory ==
    /\ items \in ItemListsOver(DemandItemDomain)
    /\ capacity \in {0, 20, 40}
    /\ minDemandScore \in {-10, 50, 90}
    /\ res01 = NoResult
    /\ resGreedy = NoResult
    /\ resInventory = NoResult
    /\ ChangeIdle
    /\ AssignIdle

DoOptimizeInventory ==
    \E order \in SortedByRatio(FilterByDemand(items, minDemandScore)) :
        /\ resInventory' = OptimizeInventory(items, capacity, minDemandScore, order)
        /\ items' = CallerItemsAfterOptimizeInventory(items, capacity,
                                                      minDemandScore, order)
        /\ UNCHANGED <<capacity, minDemandScore, res01, resGreedy,
                       changeVars, assignVars>>

SpecInventory == InitInventory /\ [][DoOptimizeInventory]_vars

(***************************************************************************)
(* Specification of the assignment engine                                  *)
(***************************************************************************)
InitAssign ==
    /\ tables \in SeqsUpTo(TableDomain, MaxTables)
    /\ groups \in GroupLists(GroupDomain, MaxGroups)
    /\ resAssign = NoResult
    /\ resOptimal = NoResult
    /\ score = -1
    /\ ChangeIdle
    /\ KnapIdle

DoAssignTablesGreedy ==
    \E order \in SortedGroupOrders(groups) :
        /\ resAssign' = AssignTablesGreedy(tables, groups, order)
        /\ tables' = CallerTablesAfterAssign(tables, groups, order)
        /\ groups' = CallerGroupsAfterAssign(tables, groups, order)
        /\ UNCHANGED <<resOptimal, score, changeVars, knapVars>>

DoAssignTablesOptimal ==
    \E order \in SortedGroupOrders(groups) :
        /\ resOptimal' = AssignTablesOptimal(tables, groups, order)
        /\ tables' = CallerTablesAfterAssign(tables, groups, order)
        /\ groups' = CallerGroupsAfterAssign(tables, groups, order)
        /\ UNCHANGED <<resAssign, score, changeVars, knapVars>>

NextAssign == DoAssignTablesGreedy

SpecAssign == InitAssign /\ [][NextAssign]_vars

\* The assignment engine called through either of its two modes.
NextOptimal == DoAssignTablesOptimal \/ DoAssignTablesGreedy

SpecOptimal == InitAssign /\ [][NextOptimal]_vars

\* The two modes on a smaller slice of tables: distinct ids, no priority.
AliasTableDomain ==
    [ID : {"T1", "T2"}, Code : {"MESA"}, Capacity : {2, 4},
     LocationX : {0}, LocationY : {0},
     IsAvailable : {TRUE}, IsOccupied : {FALSE}, Priority : {0}]

InitAlias ==
    /\ tables \in SeqsUpTo(AliasTableDomain, MaxTables)
    /\ groups \in GroupLists(GroupDomain, MaxGroups)
    /\ resAssign = NoResult
    /\ resOptimal = NoResult
    /\ score = -1
    /\ ChangeIdle
    /\ KnapIdle

SpecAlias == InitAlias /\ [][NextOptimal]_vars

\* Tables that may be unavailable or occupied; the ID of a table is given
\* by its position in the caller's list, so the ids are distinct.
AvailTableDomain ==
    [Code : {"MESA"}, Capacity : {2, 4}, LocationX : {0}, LocationY : {0},
     IsAvailable : BOOLEAN, IsOccupied : BOOLEAN, Priority : {0}]

TableIDs == <<"T1", "T2", "T3", "T4">>

TableLists(TD, n) ==
    {[i \in 1..Len(s) |-> s[i] @@ [ID |-> TableIDs[i]]] : s \in SeqsUpTo(TD, n)}

InitAvail ==
    /\ tables \in TableLists(AvailTableDomain, MaxTables)
    /\ groups \in GroupLists(GroupDomain, MaxGroups)
    /\ resAssign = NoResult
    /\ resOptimal = NoResult
    /\ score = -1
    /\ ChangeIdle
    /\ KnapIdle

SpecAvail == InitAvail /\ [][NextAssign]_vars

(***************************************************************************)
(* Specification of a caller that keeps its slices and calls every entry   *)
(* point of an engine on them: the three of the knapsack engine on its     *)
(* items, or the two of the assignment engine on its tables and groups.    *)
(***************************************************************************)
FrameItemDomain ==
    {[Weight |-> 10, Value |-> 1, Cost |-> 3, DemandScore |-> 20],
     [Weight |-> 15, Value |-> 2, Cost |-> 3, DemandScore |-> 80]}

FrameTableDomain ==
    [Code : {"MESA"}, Capacity : {4}, LocationX : {0}, LocationY : {0},
     IsAvailable : {TRUE}, IsOccupied : {FALSE}, Priority : {0}]

FrameGroupDomain ==
    [Size : {2}, Priority : {0, 5},
     PreferredX : {<<>>}, PreferredY : {<<>>}, MaxDistance : {0}]

InitFrameKnap ==
    /\ items \in ItemListsOver(FrameItemDomain)
    /\ capacity \in {10, 20}
    /\ minDemandScore = 50
    /\ res01 = NoResult
    /\ resGreedy = NoResult
    /\ resInventory = NoResult
    /\ AssignIdle

InitFrameAssign ==
    /\ tables \in TableLists(FrameTableDomain, MaxTables)
    /\ groups \in GroupLists(FrameGroupDomain, MaxGroups)
    /\ resAssign = NoResult
    /\ resOptimal = NoResult
    /\ score = -1
    /\ KnapIdle

InitFrame ==
    /\ InitFrameKnap \/ InitFrameAssign
    /\ ChangeIdle

NextFrame ==
    \/ DoSolveKnapsack01
    \/ DoSolveKnapsackGreedy
    \/ DoOptimizeInventory
    \/ DoAssignTablesGreedy
    \/ DoAssignTablesOptimal

SpecFrame == InitFrame /\ [][NextFrame]_vars

(***************************************************************************)
(* Specification of the fitness score alone: one table, one group, over a  *)
(* wider domain of capacities, sizes, priorities and distances             *)
(***************************************************************************)
ScoreTableDomain ==
    [ID : {"T1"}, Code : {"MESA"}, Capacity : {1, 2, 4, 5},
     LocationX : {0, 3, 60, 120}, LocationY : {0, 4, 80, 160},
     IsAvailable : {TRUE}, IsOccupied : {FALSE}, Priority : {-120, -1, 0, 5, 10, 11, 30}]

ScoreGroupDomain ==
    [ID : {1}, Size : {1, 2, 3, 5}, Priority : {-120, -1, 0, 5, 10, 30},
     PreferredX : {<<>>, <<0>>, <<60>>}, PreferredY : {<<>>, <<0>>, <<80>>},
     MaxDistance : {0, 5, 100, 150}]

\* Locations on the ray k * (3, 4): every distance is an integer.
OnRay(x, y) == 4 * x = 3 * y

InitScore ==
    /\ \E t \in ScoreTableDomain : OnRay(t.LocationX, t.LocationY) /\ tables = <<t>>
    /\ \E g \in ScoreGroupDomain :
          /\ HasPreferred(g) => OnRay(g.PreferredX[1], g.PreferredY[1])
          /\ groups = <<g>>
    /\ resAssign = NoResult
    /\ resOptimal = NoResult
    /\ score = -1
    /\ ChangeIdle
    /\ KnapIdle

DoCalculateFitnessScore ==
    /\ score' = calculateFitnessScore(tables[1], groups[1])
    /\ UNCHANGED <<tables, groups, resAssign, resOptimal, changeVars, knapVars>>

NextScore == DoCalculateFitnessScore

SpecScore == InitScore /\ [][NextScore]_vars

(***************************************************************************)
(* Specification of the change engine over arbitrary denomination sets     *)
(***************************************************************************)
CoinInputs == SeqsUpTo(1..MaxCoinValue, MaxCoins)

\* The state after NewMoneyChangeAlgorithm(cs) returned.
Constructed(cs) ==
    LET e == NewEngine(cs)
    IN  /\ heap = e.heap
        /\ coinsRef = e.coinsRef
        /\ coins = e.heap[e.coinsRef]
        /\ retRef = "none"
        /\ calls = NoCalls

InitChange ==
    /\ \E cs \in CoinInputs : Constructed(cs)
    /\ amount = 0
    /\ change = NoChange
    /\ optTab = <<>>
    /\ KnapIdle
    /\ AssignIdle

DoCalculateChange ==
    \E a \in -1..MaxAmount :
        /\ amount' = a
        /\ change' = CalculateChange(coins, a)
        /\ UNCHANGED <<coins, optTab, heap, coinsRef, retRef, calls, knapVars, assignVars>>

DoGetAvailableCoins ==
    LET r == GetAvailableCoins(heap, coinsRef)
    IN  /\ heap' = r.heap
        /\ retRef' = r.retRef
        /\ coins' = r.heap[coinsRef]
        /\ UNCHANGED <<coinsRef, amount, change, optTab, calls, knapVars, assignVars>>

NextChange == DoCalculateChange \/ DoGetAvailableCoins

SpecChange == InitChange /\ [][NextChange]_vars

\* The change engine built from any integers: the constructor takes []int
\* and has no check of the values.
AnyCoinValues == {-2, -1, 0, 2, 3}

AnyCoinInputs == SeqsUpTo(AnyCoinValues, MaxCoins)

InitChangeAny ==
    /\ \E cs \in AnyCoinInputs : Constructed(cs)
    /\ amount = 0
    /\ change = NoChange
    /\ optTab = <<>>
    /\ KnapIdle
    /\ AssignIdle

SpecChangeAny == InitChangeAny /\ [][NextChange]_vars

(***************************************************************************)
(* Specification of one change engine shared by the goroutines of the      *)
(* service: CalculateChange runs one loop iteration at a time, interleaved  *)
(* with the other goroutine's call, with GetAvailableCoins, and with the    *)
(* caller writing into the slice it passed to the constructor or into the   *)
(* slice it got back from GetAvailableCoins.                                *)
(***************************************************************************)
SharedCoinInputs == {<<2, 5>>, <<5, 2, 2>>}
SharedAmounts == {0, 6, 9}
WriteValues == {1}

InitShared ==
    /\ \E cs \in SharedCoinInputs : Constructed(cs)
    /\ amount = 0
    /\ change = NoChange
    /\ optTab = <<>>
    /\ KnapIdle
    /\ AssignIdle

\* Goroutine p enters CalculateChange(a): remaining, breakdown and the range
\* over mca.coins (its length is read once) are locals of the call.
BeginCalculateChange(p) ==
    /\ calls[p].pc # "loop"
    /\ \E a \in SharedAmounts :
          calls' = [calls EXCEPT ![p] =
                       [pc |-> "loop", amount |-> a, i |-> 1,
                        n |-> Len(heap[coinsRef]), st |-> LoopStart(a)]]
    /\ UNCHANGED <<coins, amount, change, optTab, heap, coinsRef, retRef,
                   knapVars, assignVars>>

\* One iteration of the loop of goroutine p: reads mca.coins[i].
StepCalculateChange(p) ==
    LET c == calls[p]
    IN  /\ c.pc = "loop" /\ c.amount > 0 /\ c.i <= c.n /\ ~c.st.panicked
        /\ calls' = [calls EXCEPT ![p] =
                         [c EXCEPT !.i = c.i + 1,
                                   !.st = GreedyStep(c.st, heap[coinsRef][c.i])]]
        /\ UNCHANGED <<coins, amount, change, optTab, heap, coinsRef, retRef,
                       knapVars, assignVars>>

\* Goroutine p returns: at once for an amount <= 0, else after the loop.
ReturnCalculateChange(p) ==
    LET c == calls[p]
        result == IF c.amount <= 0 THEN CalculateChange(<<>>, c.amount)
                  ELSE AfterLoop(c.st)
    IN  /\ c.pc = "loop"
        /\ c.amount <= 0 \/ c.i > c.n \/ c.st.panicked
        /\ calls' = [calls EXCEPT ![p] =
                         [pc |-> "done", amount |-> c.amount, result |-> result]]
        /\ amount' = c.amount
        /\ change' = result
        /\ UNCHANGED <<coins, optTab, heap, coinsRef, retRef, knapVars, assignVars>>

\* The caller writes an element of the slice it passed to the constructor.
CallerWritesArgument ==
    \E i \in DOMAIN heap.arg, v \in WriteValues :
        /\ heap.arg[i] # v
        /\ heap' = [heap EXCEPT !.arg[i] = v]
        /\ coins' = heap'[coinsRef]
        /\ UNCHANGED <<coinsRef, retRef, amount, change, optTab, calls,
                       knapVars, assignVars>>

\* The caller writes an element of the slice GetAvailableCoins returned.
CallerWritesReturned ==
    /\ retRef # "none"
    /\ \E i \in DOMAIN heap[retRef], v \in WriteValues :
          /\ heap[retRef][i] # v
          /\ heap' = [heap EXCEPT ![retRef][i] = v]
          /\ coins' = heap'[coinsRef]
    /\ UNCHANGED <<coinsRef, retRef, amount, change, optTab, calls,
                   knapVars, assignVars>>

NextShared ==
    \/ \E p \in Procs : BeginCalculateChange(p)
    \/ \E p \in Procs : StepCalculateChange(p)
    \/ \E p \in Procs : ReturnCalculateChange(p)
    \/ DoGetAvailableCoins
    \/ CallerWritesArgument
    \/ CallerWritesReturned

SpecShared == InitShared /\ [][NextShared]_vars

(***************************************************************************)
(* Specification of the change engine of NewOptimizationService: the       *)
(* default denominations.  Amounts are asked in increasing order so that   *)
(* the reference table of optimal coin counts can be built alongside.      *)
(***************************************************************************)
CoinSet(cs) == {cs[i] : i \in DOMAIN cs}

\* Fewest coins of cs summing to a = Len(tab), given tab[b+1] for every
\* b < a (Bellman recursion); -1 when a is not representable.
MinCoinsNext(tab, cs) ==
    LET a == Len(tab)
        cands == {tab[a - c + 1] : c \in {d \in CoinSet(cs) : d <= a /\ tab[a - d + 1] >= 0}}
    IN  IF a = 0 THEN 0
        ELSE IF cands = {} THEN -1
        ELSE 1 + SetMin(cands)

InitDefault ==
    /\ Constructed(DefaultCoins)
    /\ amount = 0
    /\ change = NoChange
    /\ optTab = <<>>
    /\ KnapIdle
    /\ AssignIdle

DoCalculateChangeDefault ==
    \E a \in 0..MaxAmountDefault :
        /\ a = Len(optTab)
        /\ amount' = a
        /\ change' = CalculateChange(coins, a)
        /\ optTab' = Append(optTab, MinCoinsNext(optTab, coins))
        /\ UNCHANGED <<coins, heap, coinsRef, retRef, calls, knapVars, assignVars>>

NextDefault == DoCalculateChangeDefault

SpecDefault == InitDefault /\ [][NextDefault]_vars

(***************************************************************************)
(* Claims about the change engine                                          *)
(***************************************************************************)
\* Sum over the breakdown of denomination x count.
BreakdownValue(b) == SumOver([c \in DOMAIN b |-> c * b[c]], DOMAIN b)

\* C1: whenever CalculateChange returns Success = true, the sum over the
\* Breakdown of denomination x count equals the requested amount, and
\* TotalCoins equals the sum of the counts.
C1_SuccessSumsToAmount ==
    (Called(change) /\ change.Success) =>
        /\ BreakdownValue(change.Breakdown) = amount
        /\ change.TotalCoins = SumOver(change.Breakdown, DOMAIN change.Breakdown)

\* C1 witness: a successful breakdown that uses two denominations, one of
\* them more than once.
C1_Witness ==
    /\ Called(change) /\ change.Success /\ amount > 0
    /\ Cardinality(DOMAIN change.Breakdown) >= 2
    /\ \E c \in DOMAIN change.Breakdown : change.Breakdown[c] >= 2

\* a is a sum of (non-negative multiples of) positive denominations in S.
RECURSIVE Representable(_, _)
Representable(S, a) ==
    \/ a = 0
    \/ \E c \in S : c <= a /\ Representable(S, a - c)

\* The residual amount reported by a failed greedy pass.
Residual(res) == res.Message[2]

GreedyFailed == Called(change) /\ ~change.Success /\ amount >= 0

DivisibilityChain(cs) ==
    \A i, j \in DOMAIN cs : cs[i] >= cs[j] => cs[i] % cs[j] = 0

C3_DefaultIsOptimal ==
    Called(change) =>
        /\ change.Success
        /\ change.TotalCoins = optTab[amount + 1]

\* C3 witness: an amount broken into four denominations and eight coins
\* (99 = 50 + 25 + 2 x 10 + 4 x 1), which the reference table confirms.
C3_Witness ==
    /\ Called(change) /\ change.Success
    /\ Cardinality(DOMAIN change.Breakdown) >= 4
    /\ change.TotalCoins >= 8
    /\ change.TotalCoins = optTab[amount + 1]

(***************************************************************************)
(* Claims about the knapsack engine                                        *)
(***************************************************************************)
Called01 == res01.Message # <<"no call">>
CalledGreedy == resGreedy.Message # <<"no call">>

\* C4 (as stated): for every item list with non-negative weights and every
\* capacity > 0, the TotalWeight returned by SolveKnapsack01 (the sum of the
\* unscaled weights of the selected items) is at most the capacity.
C4_TotalWeightWithinCapacity ==
    (Called01 /\ capacity > 0) => res01.TotalWeight <= capacity

\* C5 (as stated): for every item list and capacity > 0, the TotalValue of
\* SolveKnapsackGreedy is at least the TotalValue of SolveKnapsack01 on the
\* same input.
C5_GreedyUpperBounds01 ==
    (Called01 /\ CalledGreedy /\ capacity > 0) =>
        RatLeq(res01.TotalValue, resGreedy.TotalValue)

CalledAssign == resAssign.Message # <<"no call">>
CalledOptimal == resOptimal.Message # <<"no call">>

\* C7: AssignTablesGreedy never assigns the same table id twice: the
\* TableID values of the Assignments are pairwise distinct.
C7_TableIDsDistinct ==
    CalledAssign =>
        \A i, j \in 1..Len(resAssign.Assignments) :
            i # j => resAssign.Assignments[i].TableID # resAssign.Assignments[j].TableID

\* C7 witness: two input tables share an id and both groups fit both
\* tables, yet one group is assigned and the other is left unassigned.
C7_Witness ==
    /\ CalledAssign
    /\ Len(tables) = 2 /\ tables[1].ID = tables[2].ID
    /\ Len(groups) = 2
    /\ \A t \in 1..2, g \in 1..2 : calculateFitnessScore(tables[t], groups[g]) > 0
    /\ Len(resAssign.Assignments) = 1
    /\ Len(resAssign.UnassignedGroups) = 1

\* C8: every Assignment of AssignTablesGreedy pairs a group with a table
\* whose Capacity is at least the group's Size.
C8_AssignedTableFitsGroup ==
    CalledAssign =>
        \A k \in 1..Len(resAssign.Assignments) :
            LET a == resAssign.Assignments[k]
            IN  /\ RatLeq(a.CapacityUtil, Rat(1))
                /\ \E t \in 1..Len(tables), g \in 1..Len(groups) :
                      /\ tables[t].ID = a.TableID
                      /\ groups[g].ID = a.CustomerID
                      /\ a.CapacityUtil = <<groups[g].Size, tables[t].Capacity>>
                      /\ tables[t].Capacity >= groups[g].Size

\* C8 witness: one group is assigned; the other is left unassigned although
\* a table with another id stays free, because that table is too small.
C8_Witness ==
    /\ CalledAssign
    /\ Len(tables) = 2 /\ tables[1].ID # tables[2].ID
    /\ Len(groups) = 2
    /\ Len(resAssign.Assignments) = 1
    /\ Len(resAssign.UnassignedGroups) = 1
    /\ \E t \in 1..2, g \in 1..2 :
          /\ tables[t].ID # resAssign.Assignments[1].TableID
          /\ groups[g].ID = resAssign.UnassignedGroups[1]
          /\ tables[t].Capacity < groups[g].Size

\* C9: calculateFitnessScore returns a value in [0, 1] for every table and
\* group, whatever the priorities and the distance.
C9_ScoreInUnitInterval ==
    score # -1 => (0 <= score /\ score <= One)

\* C9 witness: a table that fits, no distance penalty, and a table priority
\* negative enough to take the unclamped sum below 0.
C9_Witness ==
    /\ score = 0
    /\ tables[1].Capacity >= groups[1].Size
    /\ ~HasPreferred(groups[1])
    /\ tables[1].Priority = -120 /\ groups[1].Priority = 0

\* The table is one AssignTablesGreedy may assign.
Eligible(table) == table.IsAvailable /\ ~table.IsOccupied

\* The matchings of groups to tables: m[g] is the position of the table of
\* group g, or 0; each pair has a positive score, and no two groups get the
\* same table or two tables with the same id.
Matchings(ts, gs) ==
    {m \in [1..Len(gs) -> 0..Len(ts)] :
        /\ \A g \in 1..Len(gs) :
              m[g] # 0 => (Eligible(ts[m[g]]) /\ calculateFitnessScore(ts[m[g]], gs[g]) > 0)
        /\ \A g, h \in 1..Len(gs) :
              (g # h /\ m[g] # 0 /\ m[h] # 0) => ts[m[g]].ID # ts[m[h]].ID}

MatchingFitness(ts, gs, m) ==
    SumSeq([g \in 1..Len(gs) |->
               IF m[g] = 0 THEN 0 ELSE calculateFitnessScore(ts[m[g]], gs[g])])

MaxMatchingFitness(ts, gs) ==
    SetMax({MatchingFitness(ts, gs, m) : m \in Matchings(ts, gs)})

\* C10 (as stated): the TotalFitness of AssignTablesOptimal is the maximum
\* total fitness over all matchings of groups to eligible tables that use
\* only pairs with a positive score.
C10_OptimalIsMaximum ==
    CalledOptimal => resOptimal.TotalFitness = MaxMatchingFitness(tables, groups)

\* The results AssignTablesGreedy can return on the inputs of the state, one
\* for each order sort.Slice may leave the groups in.
GreedyResults ==
    {AssignTablesGreedy(tables, groups, order) : order \in SortedGroupOrders(groups)}

CountIn(s, P(_)) == Cardinality({i \in 1..Len(s) : P(s[i])})

\* C12: on every return path of AssignTablesGreedy each input group is
\* accounted for exactly once: its id is the CustomerID of exactly one
\* Assignment or occurs exactly once in UnassignedGroups, never both and
\* never neither; a group without a table does not end the pass.
C12_EveryGroupAccountedOnce ==
    CalledAssign =>
        /\ Len(resAssign.Assignments) + Len(resAssign.UnassignedGroups) = Len(groups)
        /\ \A g \in 1..Len(groups) :
              LET IsCustomer(a) == a.CustomerID = groups[g].ID
                  IsId(id) == id = groups[g].ID
              IN  CountIn(resAssign.Assignments, IsCustomer)
                    + CountIn(resAssign.UnassignedGroups, IsId) = 1

\* C12 witness: the group served first has no table that fits it and is
\* listed as unassigned; the group served after it is assigned.
C12_Witness ==
    /\ CalledAssign
    /\ Len(groups) = 2 /\ GroupBefore(groups[1], groups[2])
    /\ resAssign.UnassignedGroups = <<groups[1].ID>>
    /\ Len(resAssign.Assignments) = 1
    /\ resAssign.Assignments[1].CustomerID = groups[2].ID

\* C13: AssignTablesGreedy only assigns tables with IsAvailable = true and
\* IsOccupied = false; when the input has no such table, Assignments is
\* empty and every input group id is in UnassignedGroups.
C13_OnlyEligibleTablesAssigned ==
    CalledAssign =>
        /\ \A k \in 1..Len(resAssign.Assignments) :
              \E t \in 1..Len(tables) :
                  /\ tables[t].ID = resAssign.Assignments[k].TableID
                  /\ tables[t].IsAvailable /\ ~tables[t].IsOccupied
        /\ (\A t \in 1..Len(tables) : ~Eligible(tables[t])) =>
              /\ resAssign.Assignments = <<>>
              /\ \A g \in 1..Len(groups) :
                    \E u \in 1..Len(resAssign.UnassignedGroups) :
                        resAssign.UnassignedGroups[u] = groups[g].ID

\* C13 witness: two tables that fit both groups, one of them available but
\* occupied; one group gets the free table and the other stays unassigned.
C13_Witness ==
    /\ CalledAssign
    /\ Len(tables) = 2 /\ Len(groups) = 2
    /\ \A t \in 1..2, g \in 1..2 : tables[t].Capacity >= groups[g].Size
    /\ \E t \in 1..2 : tables[t].IsAvailable /\ tables[t].IsOccupied
    /\ Len(resAssign.Assignments) = 1
    /\ Len(resAssign.UnassignedGroups) = 1

\* The number of occurrences of v in the sequence s.
Occurrences(s, v) == Cardinality({i \in DOMAIN s : s[i] = v})

\* C14 (as stated): after NewMoneyChangeAlgorithm(coins) the denomination
\* sequence, as used by CalculateChange and as returned by
\* GetAvailableCoins, is sorted descending and has no duplicate values.
C14_SortedWithoutDuplicates ==
    /\ \A i, j \in DOMAIN coins : i < j => coins[i] > coins[j]
    /\ retRef # "none" =>
          \A i, j \in DOMAIN heap[retRef] : i < j => heap[retRef][i] > heap[retRef][j]

\* C14 (amended): after NewMoneyChangeAlgorithm(coins) the denomination
\* sequence, as used by CalculateChange and as returned by
\* GetAvailableCoins, is the input in non-increasing order: every value of
\* the input is kept as many times as the input has it.
C14_SortedPermutationOfInput ==
    /\ \A i, j \in DOMAIN coins : i < j => coins[i] >= coins[j]
    /\ Len(coins) = Len(heap.arg)
    /\ \A v \in CoinSet(heap.arg) \cup CoinSet(coins) :
          Occurrences(coins, v) = Occurrences(heap.arg, v)
    /\ retRef # "none" => heap[retRef] = coins

\* C14 witness: an unsorted input with a repeated denomination; the engine
\* keeps both copies and GetAvailableCoins returned them.
C14_Witness ==
    /\ Len(heap.arg) = 3 /\ heap.arg[1] = heap.arg[3] /\ heap.arg[1] < heap.arg[2]
    /\ coins[2] = coins[3]
    /\ retRef # "none" /\ heap[retRef] = coins

\* C15 (as stated): constructing the change engine from a sequence with a
\* zero or negative value fails, so no CalculateChange call runs against a
\* non-positive denomination and every count in a returned Breakdown is
\* non-negative.
C15_NonPositiveDenominationsRejected ==
    Called(change) =>
        /\ \A i \in DOMAIN coins : coins[i] > 0
        /\ change # Panicked
        /\ \A c \in DOMAIN change.Breakdown : change.Breakdown[c] >= 0

\* C19: the change engine holds no mutable state across calls.  After
\* construction no step changes its denomination sequence: not a
\* CalculateChange or GetAvailableCoins call, in any interleaving, and not
\* the caller writing into the slice it passed to the constructor or into a
\* slice GetAvailableCoins returned.  Hence every finished CalculateChange(a)
\* has the result of a call made alone on that sequence.
C19_EngineStateNeverChanges ==
    /\ [][coins' = coins]_vars
    /\ [](\A p \in Procs :
             calls[p].pc = "done" =>
                 calls[p].result = CalculateChange(coins, calls[p].amount))

\* C19 witness: the caller has overwritten an element of its constructor
\* argument and of the returned slice, and a call that was in its loop
\* during the writes has returned the change for the original denominations.
C19_Witness ==
    /\ heap.arg # heap.engine /\ \E i \in DOMAIN heap.arg : heap.arg[i] = 1
    /\ retRef # "none" /\ \E i \in DOMAIN heap.returned : heap.returned[i] = 1
    /\ calls["g2"].pc = "loop" /\ calls["g2"].i = 2
    /\ calls["g1"].pc = "done" /\ calls["g1"].amount = 9
    /\ calls["g1"].result.Success /\ calls["g1"].result.TotalCoins = 3

CalledInventory == resInventory.Message # <<"no call">>

\* C17: every item in the SelectedItems of OptimizeInventory, a fractional
\* partial copy included, has DemandScore >= minDemandScore.
C17_SelectedMeetDemand ==
    CalledInventory =>
        \A k \in 1..Len(resInventory.SelectedItems) :
            resInventory.SelectedItems[k].DemandScore >= minDemandScore

\* C17 witness: an item below the threshold is left out although it has
\* the best ratio, and the last selected item is a fractional copy.
C17_Witness ==
    /\ CalledInventory
    /\ resInventory.Partial
    /\ Len(resInventory.SelectedItems) = 2
    /\ \E i \in 1..Len(items) :
          /\ items[i].DemandScore < minDemandScore
          /\ \A j \in 1..Len(items) : ~RatLess(Ratio(items[i]), Ratio(items[j]))
          /\ \A k \in 1..2 : resInventory.SelectedItems[k].ID # items[i].ID

MovedTo(table, k) == [table EXCEPT !.LocationX = 3 * k, !.LocationY = 4 * k]

\* The distance between the table and the preferred location of the group.
DistanceTo(table, group) ==
    calculateDistance(table.LocationX, table.LocationY,
                      group.PreferredX[1], group.PreferredY[1])

\* Positions on the ray the table is moved to.
RayPoints == {0, 1, 2, 10, 19, 20, 21, 30, 40, 50}

\* C20: for a fixed table and group, calculateFitnessScore does not grow
\* with the distance between the table and the group's preferred location:
\* d1 <= d2 implies score(d2) <= score(d1); and without a maximum-distance
\* constraint the score is the same at every distance of 100 units or more.
C20_ScoreNonIncreasingInDistance ==
    (score # -1 /\ HasPreferred(groups[1])) =>
        \A k \in RayPoints :
            LET moved == MovedTo(tables[1], k)
                d1 == DistanceTo(tables[1], groups[1])
                d2 == DistanceTo(moved, groups[1])
                score2 == calculateFitnessScore(moved, groups[1])
            IN  /\ d1 <= d2 => score2 <= score
                /\ (groups[1].MaxDistance <= 0 /\ d1 >= 100 /\ d2 >= 100)
                      => score2 = score

\* C20 witness: a table 100 units from the preferred location of a group
\* without a maximum distance has a positive score below 1; moved to 150
\* units it keeps that score, moved closer it scores more.
C20_Witness ==
    /\ score > 0 /\ score < One
    /\ HasPreferred(groups[1]) /\ groups[1].MaxDistance = 0
    /\ groups[1].PreferredX = <<0>>
    /\ DistanceTo(tables[1], groups[1]) = 100
    /\ calculateFitnessScore(MovedTo(tables[1], 30), groups[1]) = score
    /\ calculateFitnessScore(MovedTo(tables[1], 10), groups[1]) > score

\* C21: CalculateChange(0) returns Success = true with an empty Breakdown
\* and TotalCoins = 0 for every denomination sequence, and does so without
\* running the greedy pass (a zero denomination cannot make it panic).
C21_ZeroAmountShortCircuits ==
    (Called(change) /\ amount = 0) =>
        /\ change.Success
        /\ change.Breakdown = EmptyBreakdown
        /\ change.TotalCoins = 0
        /\ change.Message = <<"No change needed">>

\* C21 witness: amount 0 asked of an engine whose sequence holds a zero and
\* a negative denomination, on which the greedy pass would not return this.
C21_Witness ==
    /\ Called(change) /\ amount = 0 /\ change.Success
    /\ \E i, j \in DOMAIN coins : coins[i] = 0 /\ coins[j] < 0
    /\ CalculateChangeNoZeroReturn(coins, 0) # change

\* The subsets of the item positions whose scaled weights sum to at most
\* the scaled capacity, and the largest total value of one of them.
FeasibleSubsets(its, cap) ==
    {S \in SUBSET (1..Len(its)) :
        SumOver([i \in 1..Len(its) |-> ScaleToInt(its[i].Weight)], S) <= ScaleToInt(cap)}

BestSubsetValue(its, cap) ==
    SetMax({SumOver([i \in 1..Len(its) |-> its[i].Value], S) :
               S \in FeasibleSubsets(its, cap)})

\* The final DP table of SolveKnapsack01 on its and cap.
FinalTable(its, cap) ==
    BuildDP(its, ScaleToInt(cap), 1,
            [dp |-> [w \in 0..ScaleToInt(cap) |-> 0], selected |-> {}]).dp

C23_SelectedIsSubsequence ==
    Called01 =>
        /\ \A k \in 1..Len(res01.SelectedItems) :
              /\ res01.SelectedItems[k].ID \in 1..Len(items)
              /\ res01.SelectedItems[k] = AsSelected(items[res01.SelectedItems[k].ID])
        /\ \A k, l \in 1..Len(res01.SelectedItems) :
              k < l => res01.SelectedItems[k].ID < res01.SelectedItems[l].ID

\* C23 witness: the first and the third item are selected, in that order,
\* and the second is skipped.
C23_Witness ==
    /\ Called01 /\ Len(items) = 3
    /\ Len(res01.SelectedItems) = 2
    /\ res01.SelectedItems[1].ID = 1
    /\ res01.SelectedItems[2].ID = 3
    /\ items[1].Weight > 0 /\ items[3].Weight > items[1].Weight

\* The product of the rational a and the fraction num / den.
RatScale(a, num, den) == <<a[1] * num, a[2] * den>>

\* The item of the result is a whole copy of the input item of its ID.
IsWholeCopy(sel) ==
    sel.ID \in 1..Len(items) /\ sel = AsSelected(items[sel.ID])

\* The item of the result is the input item of its ID scaled by
\* remaining / Weight, where remaining is the capacity left before it.
IsPartialCopy(sel, remaining) ==
    /\ sel.ID \in 1..Len(items)
    /\ LET orig == AsSelected(items[sel.ID])
       IN  /\ orig.Weight > remaining /\ remaining > 0
           /\ sel.Weight = remaining
           /\ RatEq(sel.Value, RatScale(orig.Value, remaining, orig.Weight))
           /\ RatEq(sel.Cost, RatScale(orig.Cost, remaining, orig.Weight))
           /\ sel.DemandScore = orig.DemandScore

ScoreBeforeBonuses(table, group) ==
    IF HasPreferred(group)
    THEN DistanceScore(CapacityScore(table, group),
                       calculateDistance(table.LocationX, table.LocationY,
                                         group.PreferredX[1], group.PreferredY[1]))
    ELSE CapacityScore(table, group)

\* The pair passes both hard checks of calculateFitnessScore.
PassesHardChecks(table, group) ==
    /\ table.Capacity >= group.Size
    /\ ~(HasPreferred(group) /\ group.MaxDistance > 0
          /\ calculateDistance(table.LocationX, table.LocationY,
                               group.PreferredX[1], group.PreferredY[1])
               > group.MaxDistance)

\* C25 (as stated): in calculateFitnessScore the table-priority bonus and
\* the group-priority bonus are each capped at +0.10: for any priority,
\* also one above 10, neither adds more than 0.10 before the final clamp,
\* so the score returned is the clamp of the penalised score plus the two
\* bonuses cut at 0.10.
C25_PriorityBonusesCapped ==
    (score # -1 /\ PassesHardChecks(tables[1], groups[1])) =>
        LET cap == One \div 10
            tb == PriorityBonus(tables[1].Priority)
            gb == PriorityBonus(groups[1].Priority)
            raw == ScoreBeforeBonuses(tables[1], groups[1])
                     + (IF tb > cap THEN cap ELSE tb) + (IF gb > cap THEN cap ELSE gb)
        IN  /\ tb <= cap
            /\ gb <= cap
            /\ score = (IF raw > One THEN One ELSE IF raw < 0 THEN 0 ELSE raw)

\* C26: groups are served by priority descending, then size descending, so
\* no group is starved by a later one: if g is left unassigned and a group
\* h of lower priority (or equal priority and smaller size) is assigned
\* table t, then the fitness score of t for g is 0.
C26_NotStarvedByLaterGroup ==
    CalledAssign =>
        \A g, h \in 1..Len(groups), k \in 1..Len(resAssign.Assignments),
           t \in 1..Len(tables) :
            ( /\ \E u \in 1..Len(resAssign.UnassignedGroups) :
                    resAssign.UnassignedGroups[u] = groups[g].ID
              /\ resAssign.Assignments[k].CustomerID = groups[h].ID
              /\ \/ groups[h].Priority < groups[g].Priority
                 \/ /\ groups[h].Priority = groups[g].Priority
                    /\ groups[h].Size < groups[g].Size
              /\ tables[t].ID = resAssign.Assignments[k].TableID )
            => calculateFitnessScore(tables[t], groups[g]) = 0

\* C26 witness: the group served first is too large for the only free
\* table and stays unassigned; the smaller group served after it gets it.
C26_Witness ==
    /\ CalledAssign
    /\ Len(groups) = 2
    /\ groups[2].Priority > groups[1].Priority /\ groups[2].Size > groups[1].Size
    /\ resAssign.UnassignedGroups = <<groups[2].ID>>
    /\ Len(resAssign.Assignments) = 1
    /\ resAssign.Assignments[1].CustomerID = groups[1].ID
    /\ \E t \in 1..Len(tables) : Eligible(tables[t]) /\ tables[t].Capacity < groups[2].Size

\* The positions of the eligible tables still free when the k-th Assignment
\* of the result was made: those whose id no earlier Assignment took.
FreeAt(k) ==
    {t \in 1..Len(tables) :
        /\ Eligible(tables[t])
        /\ \A j \in 1..(k - 1) : resAssign.Assignments[j].TableID # tables[t].ID}

\* C27: for each group that AssignTablesGreedy assigns, the table chosen
\* has the highest positive fitness score among the eligible tables not
\* yet assigned; among several with that score the first of the input list
\* is chosen; and the FitnessScore recorded is the score of that table.
C27_BestTableFirstOnTies ==
    CalledAssign =>
        \A k \in 1..Len(resAssign.Assignments) :
            \E g \in 1..Len(groups), c \in FreeAt(k) :
                /\ groups[g].ID = resAssign.Assignments[k].CustomerID
                /\ tables[c].ID = resAssign.Assignments[k].TableID
                /\ resAssign.Assignments[k].FitnessScore
                     = calculateFitnessScore(tables[c], groups[g])
                /\ resAssign.Assignments[k].FitnessScore > 0
                /\ \A t \in FreeAt(k) :
                      /\ calculateFitnessScore(tables[t], groups[g])
                           <= calculateFitnessScore(tables[c], groups[g])
                      /\ t < c => calculateFitnessScore(tables[t], groups[g])
                                    < calculateFitnessScore(tables[c], groups[g])

\* C27 witness: two free tables tie on the score for the group served
\* first; that group takes the first table of the input list and the other
\* group takes the second.
C27_Witness ==
    /\ CalledAssign
    /\ Len(tables) = 2 /\ Len(groups) = 2
    /\ Eligible(tables[1]) /\ Eligible(tables[2])
    /\ Len(resAssign.Assignments) = 2
    /\ LET g == CHOOSE x \in 1..2 : groups[x].ID = resAssign.Assignments[1].CustomerID
       IN  /\ calculateFitnessScore(tables[1], groups[g])
                = calculateFitnessScore(tables[2], groups[g])
           /\ resAssign.Assignments[1].TableID = tables[1].ID
    /\ resAssign.Assignments[2].TableID = tables[2].ID

(***************************************************************************)
(* Specification of the assignment engine over priorities of either sign   *)
(***************************************************************************)
\* Table and group priorities are plain ints: nothing keeps them in 0..10.
PriorityTableDomain ==
    [Code : {"MESA"}, Capacity : {2, 4}, LocationX : {0}, LocationY : {0},
     IsAvailable : {TRUE}, IsOccupied : {FALSE}, Priority : {-120, 0, 10}]

PriorityGroupDomain ==
    [Size : {2, 3}, Priority : {-100, 0},
     PreferredX : {<<>>}, PreferredY : {<<>>}, MaxDistance : {0}]

InitPriority ==
    /\ tables \in TableLists(PriorityTableDomain, MaxTables)
    /\ groups \in GroupLists(PriorityGroupDomain, MaxGroups)
    /\ resAssign = NoResult
    /\ resOptimal = NoResult
    /\ score = -1
    /\ ChangeIdle
    /\ KnapIdle

SpecPriority == InitPriority /\ [][NextAssign]_vars

\* The positions of the eligible tables still free at the turn of the
\* group served i-th in the order: those no Assignment of a group served
\* earlier took.
FreeAtTurn(order, i) ==
    {t \in 1..Len(tables) :
        /\ Eligible(tables[t])
        /\ \A k \in 1..Len(resAssign.Assignments), j \in 1..(i - 1) :
              resAssign.Assignments[k].CustomerID = groups[order[j]].ID
                  => resAssign.Assignments[k].TableID # tables[t].ID}

\* C28: a group is in UnassignedGroups only when, at its turn, every
\* eligible table not yet assigned fails a hard constraint for it (too
\* small, or farther than a positive MaxDistance from the preferred
\* location), whatever the signs of the priorities.
C28_UnassignedOnlyOnHardConstraint ==
    CalledAssign =>
        \E order \in SortedGroupOrders(groups) :
            /\ resAssign = AssignTablesGreedy(tables, groups, order)
            /\ \A i \in 1..Len(groups), u \in 1..Len(resAssign.UnassignedGroups) :
                  resAssign.UnassignedGroups[u] = groups[order[i]].ID
                      => \A t \in FreeAtTurn(order, i) :
                             ~PassesHardChecks(tables[t], groups[order[i]])

(***************************************************************************)
(* Specification of the assignment engine over tables at several places    *)
(* and groups with preferred locations and distance limits                 *)
(***************************************************************************)
\* Tables at distance 0, 5 and 100 from the origin.
DistanceTableDomain ==
    {t \in [Code : {"MESA"}, Capacity : {4}, LocationX : {0, 3, 60},
            LocationY : {0, 4, 80}, IsAvailable : {TRUE}, IsOccupied : {FALSE},
            Priority : {0}] : OnRay(t.LocationX, t.LocationY)}

\* Groups that prefer the origin, name only one coordinate, or name none;
\* MaxDistance 0 is no limit.
DistanceGroupDomain ==
    {g \in [Size : {2}, Priority : {0}, PreferredX : {<<>>, <<0>>},
            PreferredY : {<<>>, <<0>>}, MaxDistance : {0, 5, 50}] :
        /\ g.PreferredY = <<>> => g.MaxDistance = 5
        /\ g.PreferredX = <<>> => g.PreferredY = <<>>}

InitDistance ==
    /\ tables \in TableLists(DistanceTableDomain, MaxTables)
    /\ groups \in GroupLists(DistanceGroupDomain, MaxGroups)
    /\ resAssign = NoResult
    /\ resOptimal = NoResult
    /\ score = -1
    /\ ChangeIdle
    /\ KnapIdle

SpecDistance == InitDistance /\ [][NextAssign]_vars

\* C29: an Assignment of a group that names both preferred coordinates and
\* a MaxDistance > 0 has Distance <= MaxDistance, and the Distance is that
\* from the preferred location to the table assigned; an Assignment of a
\* group without a preferred location has Distance 0.
C29_DistanceWithinLimit ==
    CalledAssign =>
        \A k \in 1..Len(resAssign.Assignments), g \in 1..Len(groups), t \in 1..Len(tables) :
            ( /\ resAssign.Assignments[k].CustomerID = groups[g].ID
              /\ resAssign.Assignments[k].TableID = tables[t].ID )
            => /\ HasPreferred(groups[g])
                    => resAssign.Assignments[k].Distance = DistanceTo(tables[t], groups[g])
               /\ (HasPreferred(groups[g]) /\ groups[g].MaxDistance > 0)
                    => resAssign.Assignments[k].Distance <= groups[g].MaxDistance
               /\ ~HasPreferred(groups[g]) => resAssign.Assignments[k].Distance = 0

\* C29 witness: the first table is 100 away from the place a group prefers
\* and the second 5 away, the group accepts at most 5 and is given the
\* second table; a group without a preferred location takes the first.
C29_Witness ==
    /\ CalledAssign
    /\ Len(tables) = 2 /\ Len(groups) = 2
    /\ \E g, h \in 1..2 :
          /\ HasPreferred(groups[g]) /\ groups[g].MaxDistance = 5
          /\ DistanceTo(tables[1], groups[g]) = 100
          /\ ~HasPreferred(groups[h])
          /\ \E k, j \in 1..Len(resAssign.Assignments) :
                /\ resAssign.Assignments[k].CustomerID = groups[g].ID
                /\ resAssign.Assignments[k].TableID = tables[2].ID
                /\ resAssign.Assignments[k].Distance = 5
                /\ resAssign.Assignments[j].CustomerID = groups[h].ID
                /\ resAssign.Assignments[j].TableID = tables[1].ID
                /\ resAssign.Assignments[j].Distance = 0

(***************************************************************************)
(* Specification of the assignment engine over group lists whose ids may   *)
(* repeat                                                                  *)
(***************************************************************************)
DupTableDomain ==
    [Code : {"MESA"}, Capacity : {2, 4}, LocationX : {0}, LocationY : {0},
     IsAvailable : {TRUE}, IsOccupied : {FALSE}, Priority : {0}]

\* Nothing makes the ids of the caller's groups distinct.
DupGroupDomain ==
    [ID : {1, 2}, Size : {2, 3}, Priority : {0, 5},
     PreferredX : {<<>>}, PreferredY : {<<>>}, MaxDistance : {0}]

InitDupGroups ==
    /\ tables \in TableLists(DupTableDomain, MaxTables)
    /\ groups \in SeqsUpTo(DupGroupDomain, MaxGroups)
    /\ resAssign = NoResult
    /\ resOptimal = NoResult
    /\ score = -1
    /\ ChangeIdle
    /\ KnapIdle

SpecDupGroups == InitDupGroups /\ [][NextAssign]_vars

\* The Size of the group an Assignment seated: the numerator of its
\* CapacityUtil, float64(group.Size) / float64(bestTable.Capacity).
ServedSize(assignment) == assignment.CapacityUtil[1]

\* C30: the aggregates of an AssignmentResult agree with its Assignments,
\* whether or not the ids of the groups are distinct: TablesUsed is their
\* number, TotalFitness the sum of their FitnessScore, AverageFitness that
\* sum over their number (0 when there are none), CustomersServed the sum
\* of the Size of the groups that were given a table.
C30_AggregatesAgree ==
    CalledAssign =>
        LET as == resAssign.Assignments
        IN  /\ resAssign.TablesUsed = Len(as)
            /\ resAssign.TotalFitness = SumSeq([k \in 1..Len(as) |-> as[k].FitnessScore])
            /\ resAssign.AverageFitness
                 = (IF Len(as) > 0 THEN <<resAssign.TotalFitness, Len(as)>> ELSE Rat(0))
            /\ resAssign.CustomersServed = SumSeq([k \in 1..Len(as) |-> ServedSize(as[k])])

====
